---- MODULE Spec2Model ----
(***************************************************************************)
(* Library-lending service: the borrow/return transactions of              *)
(* api_endpoint/library.py (identical in app.py) over a read-committed     *)
(* store with row locks, and the pybreaker circuit breaker that guards     *)
(* connection acquisition in api_endpoint/db.py.                           *)
(***************************************************************************)
EXTENDS Integers, Sequences, FiniteSets, TLC

(***************************************************************************)
(* Bounds of the model.                                                    *)
(***************************************************************************)
NumProcs == 2          \* concurrent request handlers
MaxReqs == 5           \* requests served in one behaviour
MaxQty == 2            \* largest initial quantity of the book
MaxSeqReqs == 3        \* requests sent by the sequential client
MaxCalls == 6
TickLen == 15          \* seconds by which the clock advances in one step
MaxChunks == 2         \* chunks in an upstream response body
MaxRedirects == 2      \* redirects requests follows (30 in the library)
MaxArrivals == 6       \* requests arriving in one behaviour (with get_db)
MaxParams == 2         \* parameters in a query string
MaxHeaders == 2        \* header lines in an upstream response
MaxTime == 90          \* the clock stops here
MaxBookReqs == 2       \* requests in one behaviour with book maintenance

(***************************************************************************)
(* Program constants.                                                      *)
(***************************************************************************)
PoolMax == 5           \* create_pool(max=5)
ChunkSize == 1024      \* resp.iter_content(chunk_size=1024)

Procs == 1..NumProcs
UserIds == {1}         \* rows of table users
BookIds == {1}         \* rows of table books
UserArgs == UserIds \cup {9}     \* request user_id: a row, or no row (9)
BookArgs == BookIds \cup {99}    \* request book_id: a row, or no row (99)
Ops == {"borrow", "return"}
NULL == 0              \* SQL NULL / Python None (a set return_date is 1)
NoReq == [op |-> "none", user_id |-> NULL, book_id |-> NULL]
NoBookReq == [data |-> "none", quantity |-> NULL]

VARIABLES
    quantity,    \* books.quantity, committed value, by book id
    records,     \* borrow_records, committed rows, indexed by id
    pc,          \* position of each request handler
    req,         \* the JSON body of the request a handler serves
    record_id,   \* return_book's local record_id
    txQty,       \* uncommitted change of books.quantity (row lock held iff # 0)
    txInsert,    \* uncommitted INSERT INTO borrow_records
    txReturn,    \* uncommitted UPDATE borrow_records SET return_date (record id)
    resp,        \* the response returned by the step just taken, if any
    nreq,        \* history: requests received
    served,      \* history: number of responses given, by counted kind
    returnWrites,\* history: committed writes of return_date, by record id
    initQty,     \* history: quantity of each book in the initial state
    sequential,  \* the client sends a request only after the previous response
    log,         \* history: responses in order (sequential client only)
    cb_state,    \* CircuitBreaker.current_state, by breaker
    fail_counter,\* CircuitBreaker.fail_counter, by breaker
    opened_at,   \* time of the last transition to open (NULL: never opened)
    cb_lock,     \* thread holding the breaker's lock (0: free)
    caller,      \* each thread's position in a guarded call
    g_db,        \* flask.g holds a pooled connection ('db' in g)
    pool_busy,   \* connections the pool has handed out and not got back
    pool_other,  \* of these, connections held by handlers other than Procs
    now,         \* the clock, in seconds
    out,         \* the outcome of the guarded call that just ended, if any
    ncalls,      \* history: guarded calls made
    consec,      \* history: failed executions in a row, by breaker
    listeners,   \* CircuitBreaker.listeners, by breaker
    seen,        \* the counter value a thread read in fail_counter += 1
    book_req,    \* the JSON body of the add_book / update_book request served
    book_row,    \* update_book's existing_book_data[0]['quantity']
    added,       \* quantity of the rows add_book has inserted, in order
    notified,    \* history: calls of the state-change observer, in order
    gw_pc,       \* gateway: position in serving the current request
    gw_req,      \* gateway: the client's request
    forwarded,   \* history: requests sent upstream for the current request
    up_resp,     \* gateway: the upstream response being relayed
    gw_resp,     \* gateway: the response given to the client
    rl_pc,       \* relay: position in forwarding one admitted request
    rl_req,      \* relay: the client's request (flask.request)
    rl_fwd,      \* relay: the request handed to requests.request
    rl_up,       \* relay: the upstream response (resp), with the bytes read
    rl_resp,     \* relay: status and headers of the Response returned
    rl_held,     \* relay: chunks read from the upstream and not yet written
    rl_sent      \* history: chunks written to the client, in order

bookVars == <<book_req, book_row, added>>

vars == <<quantity, records, pc, req, record_id, txQty, txInsert, txReturn,
          resp, nreq, served, returnWrites, initQty, sequential, bookVars, log,
          cb_state, fail_counter, opened_at, cb_lock, caller, g_db, now, out,
          ncalls, consec, listeners, seen, notified, pool_busy, pool_other,
          gw_pc, gw_req, forwarded, up_resp, gw_resp,
          rl_pc, rl_req, rl_fwd, rl_up, rl_resp, rl_held, rl_sent>>

dbVars == <<quantity, records, returnWrites>>
txVars == <<txQty, txInsert, txReturn>>
libVars == <<quantity, records, pc, req, record_id, txQty, txInsert, txReturn,
             resp, nreq, served, returnWrites, initQty, sequential, bookVars, log>>
poolVars == <<pool_busy, pool_other>>
brVars == <<cb_state, fail_counter, opened_at, cb_lock, caller, now, out,
            ncalls, consec, listeners, seen, notified>>
cbVars == <<brVars, g_db, poolVars>>
relayVars == <<rl_pc, rl_req, rl_fwd, rl_up, rl_resp, rl_held, rl_sent>>
gwVars == <<gw_pc, gw_req, forwarded, up_resp, gw_resp, relayVars>>

Statuses == {"borrowed", "returned", "user_not_found", "book_not_found",
             "out_of_stock", "no_active_record", "db_error",
             "missing_fields", "breaker_open", "acquire_failed",
             "added", "updated", "no_data", "unhandled_error"}
Counted == {"borrowed", "out_of_stock"}

\* HTTP status code of each response (create_response(..., code)).
StatusCode(s) ==
    CASE s = "borrowed" -> 200
      [] s = "returned" -> 200
      [] s = "user_not_found" -> 404
      [] s = "book_not_found" -> 404
      [] s = "out_of_stock" -> 400
      [] s = "no_active_record" -> 400
      [] s = "db_error" -> 500
      [] s = "missing_fields" -> 400
      [] s = "breaker_open" -> 500       \* exception out of the view function
      [] s = "acquire_failed" -> 500     \* exception out of the view function
      [] s = "added" -> 201
      [] s = "updated" -> 200
      [] s = "no_data" -> 400
      [] s = "unhandled_error" -> 500    \* exception out of the view function

NoResp == [proc |-> 0, kind |-> "none", code |-> 0, at |-> "none"]
InFlight == {p \in Procs : pc[p] # "idle"}

(***************************************************************************)
(* The store: Oracle, read committed.  A statement reads committed rows    *)
(* (plus the transaction's own writes); an UPDATE of a row waits while     *)
(* another transaction holds that row's lock.                              *)
(***************************************************************************)
\* Another transaction holds the row lock of book b.
BookLockedByOther_NoLock(p, b) == FALSE
BookLockedByOther(p, b) ==
    \E o \in Procs \ {p} : txQty[o] # 0 /\ req[o].book_id = b

RecordLockedByOther(p, rid) ==
    \E o \in Procs \ {p} : txReturn[o] = rid

\* WHERE id = :1 AND quantity > 0
StockAvailable_NoCheck(q) == q >= 0
StockAvailable(q) == q > 0

\* WHERE user_id = :1 AND book_id = :2 AND return_date IS NULL
ActiveRecords_AnyDate(u, b) ==
    {i \in 1..Len(records) : /\ records[i].user_id = u
                             /\ records[i].book_id = b}
ActiveRecords(u, b) ==
    {i \in 1..Len(records) : /\ records[i].user_id = u
                             /\ records[i].book_id = b
                             /\ records[i].return_date = NULL}

NewRecord(p) == [user_id |-> req[p].user_id, book_id |-> req[p].book_id,
                 return_date |-> NULL]

\* The transaction of the request ends: its writes and locks are gone.
TxEnd(p) ==
    /\ txQty' = [txQty EXCEPT ![p] = 0]
    /\ txInsert' = [txInsert EXCEPT ![p] = FALSE]
    /\ txReturn' = [txReturn EXCEPT ![p] = NULL]

\* db.commit(): the transaction's writes become the committed rows, together.
Commit_DropInsert(p) ==
    /\ quantity' = [b \in BookIds |->
                      IF b = req[p].book_id THEN quantity[b] + txQty[p]
                      ELSE quantity[b]]
    /\ UNCHANGED <<records, returnWrites>>
    /\ TxEnd(p)
Commit(p) ==
    LET marked == IF txReturn[p] = NULL THEN records
                  ELSE [records EXCEPT ![txReturn[p]].return_date = 1]
        writes == IF txReturn[p] = NULL THEN returnWrites
                  ELSE [returnWrites EXCEPT ![txReturn[p]] = @ + 1]
    IN
    /\ quantity' = [b \in BookIds |->
                      IF b = req[p].book_id THEN quantity[b] + txQty[p]
                      ELSE quantity[b]]
    /\ records' = IF txInsert[p] THEN Append(marked, NewRecord(p)) ELSE marked
    /\ returnWrites' = IF txInsert[p] THEN Append(writes, 0) ELSE writes
    /\ TxEnd(p)

\* db.rollback(): the transaction's writes are discarded, its locks released.
Rollback_KeepQuantity(p) ==
    /\ TxEnd(p)
    /\ quantity' = [b \in BookIds |->
                      IF b = req[p].book_id THEN quantity[b] + txQty[p]
                      ELSE quantity[b]]
    /\ UNCHANGED <<records, returnWrites>>
Rollback(p) ==
    /\ TxEnd(p)
    /\ UNCHANGED dbVars

\* close_db: db = g.pop('db', None); if db is not None: db.close()
PoolAfterClose_Never(p) == pool_busy
PoolAfterClose(p) == IF g_db[p] THEN pool_busy - 1 ELSE pool_busy

\* return create_response(...): the view function returns; the app context
\* is torn down (close_db gives the connection back to the pool, g is gone).
Reply(p, s) ==
    /\ resp' = [proc |-> p, kind |-> s, code |-> StatusCode(s), at |-> pc[p]]
    /\ served' = IF s \in Counted THEN [served EXCEPT ![s] = @ + 1] ELSE served
    /\ pc' = [pc EXCEPT ![p] = "idle"]
    /\ req' = [req EXCEPT ![p] = NoReq]
    /\ record_id' = [record_id EXCEPT ![p] = NULL]
    /\ log' = IF sequential
              THEN Append(log, [op |-> req[p].op, user_id |-> req[p].user_id,
                                book_id |-> req[p].book_id, kind |-> s,
                                quantity |-> quantity'])
              ELSE log
    /\ g_db' = [g_db EXCEPT ![p] = FALSE]
    /\ pool_busy' = PoolAfterClose(p)
    /\ UNCHANGED <<pool_other, gwVars>>

Respond(p, s) == Reply(p, s) /\ UNCHANGED brVars

\* A step inside the view function: no response yet.
Goto(p, l) ==
    /\ pc' = [pc EXCEPT ![p] = l]
    /\ resp' = NoResp
    /\ UNCHANGED <<served, req, log, cbVars, gwVars>>

(***************************************************************************)
(* The circuit breakers of circuit_breaker.py: pybreaker CircuitBreaker    *)
(* objects.  CircuitBreaker.call(func) takes the breaker's lock, lets the  *)
(* current state decide, runs func and records the outcome, all under the  *)
(* lock.                                                                   *)
(***************************************************************************)
Breakers == {"database", "redis", "authentication", "external_api"}

\* CircuitBreaker(fail_max=...)
fail_max(b) == IF b = "authentication" THEN 3 ELSE 5

\* CircuitBreaker(reset_timeout=...)
reset_timeout(b) == IF b = "authentication" THEN 45 ELSE 60

\* circuit_breaker_check(breaker_name): breaker_map.get(breaker_name, db_breaker)
BreakerNames == {"db", "redis", "auth", "external_api", "other"}
selected_breaker(name) ==
    CASE name = "db" -> "database"
      [] name = "redis" -> "redis"
      [] name = "auth" -> "authentication"
      [] name = "external_api" -> "external_api"
      [] OTHER -> "database"

NoCaller ==
    [pos |-> "idle", breaker |-> "none", state |-> "none", via |-> "none",
     inner |-> "none"]
NoOut == [proc |-> 0, breaker |-> "none", kind |-> "none", executed |-> FALSE]

\* Open state, before_call: datetime.utcnow() < opened_at + reset_timeout
StillOpen_NoWait(b) == FALSE
StillOpen(b) == opened_at[b] # NULL /\ now < opened_at[b] + reset_timeout(b)

\* Closed state, on_failure: fail_counter >= fail_max
Tripped_OneLate(b, count) == count > fail_max(b)
Tripped(b, count) == count >= fail_max(b)

\* The breaker's lock is an RLock: free, or already held by this thread.
LockFree_Always(p, b) == TRUE
LockFree(p, b) == cb_lock[b] \in {0, p}

\* The state changes from old to new: every listener's state_change runs.
Notify(b, old, new, count) ==
    notified' = IF old = new THEN notified
                ELSE notified \o [i \in 1..Len(listeners[b]) |-> <<b, old, new, count>>]

\* State check at the start of breaker.call(func): an open breaker whose
\* timeout has not elapsed rejects, one whose timeout has elapsed becomes
\* half-open and runs func as the trial.
Rejects_Never(b) == FALSE
Rejects(b) == cb_state[b] = "open" /\ StillOpen(b)
AfterCheck(b) == IF cb_state[b] = "open" THEN "half-open" ELSE cb_state[b]
Rejection(p, b) ==
    [proc |-> p, breaker |-> b, kind |-> "CircuitBreakerError", executed |-> FALSE]

\* breaker.call(func), up to the start of func: wait for the lock; an open
\* breaker whose timeout has not elapsed raises CircuitBreakerError, one
\* whose timeout has elapsed becomes half-open and runs func as the trial.
CallEnter_CountsRejection(p, b, via) ==
    /\ caller[p].pos = "idle"
    /\ ncalls < MaxCalls
    /\ LockFree(p, b)
    /\ ncalls' = ncalls + 1
    /\ IF Rejects(b)
       THEN /\ out' = Rejection(p, b)
            /\ fail_counter' = [fail_counter EXCEPT ![b] = @ + 1]
            /\ UNCHANGED <<cb_state, cb_lock, caller, notified>>
       ELSE /\ cb_state' = [cb_state EXCEPT ![b] = AfterCheck(b)]
            /\ Notify(b, cb_state[b], AfterCheck(b), fail_counter[b])
            /\ cb_lock' = [cb_lock EXCEPT ![b] = p]
            /\ caller' = [caller EXCEPT ![p] = [pos |-> "in_op", breaker |-> b,
                                                state |-> AfterCheck(b),
                                                via |-> via, inner |-> "none"]]
            /\ out' = NoOut
            /\ UNCHANGED fail_counter
    /\ UNCHANGED <<opened_at, g_db, poolVars, now, consec, listeners, seen, libVars,
                   gwVars>>
CallEnter(p, b, via) ==
    /\ caller[p].pos = "idle"
    /\ ncalls < MaxCalls
    /\ LockFree(p, b)
    /\ ncalls' = ncalls + 1
    /\ IF Rejects(b)
       THEN /\ out' = Rejection(p, b)
            /\ UNCHANGED <<cb_state, cb_lock, caller, notified>>
       ELSE /\ cb_state' = [cb_state EXCEPT ![b] = AfterCheck(b)]
            /\ Notify(b, cb_state[b], AfterCheck(b), fail_counter[b])
            /\ cb_lock' = [cb_lock EXCEPT ![b] = p]
            /\ caller' = [caller EXCEPT ![p] = [pos |-> "in_op", breaker |-> b,
                                                state |-> AfterCheck(b),
                                                via |-> via, inner |-> "none"]]
            /\ out' = NoOut
    /\ UNCHANGED <<fail_counter, opened_at, g_db, poolVars, now, consec, listeners, seen,
                   libVars, gwVars>>

\* on_success: self._breaker._state_storage.reset_counter()
CounterAfterSuccess_Kept(b) == fail_counter[b]
CounterAfterSuccess(b) == 0

\* func returned: _handle_success resets the counter, and closes a half-open
\* breaker.
RecordSuccess_StayHalfOpen(p, b) ==
    /\ fail_counter' = [fail_counter EXCEPT ![b] = 0]
    /\ consec' = [consec EXCEPT ![b] = 0]
    /\ UNCHANGED <<cb_state, notified>>
    /\ out' = [proc |-> p, breaker |-> b, kind |-> "returned", executed |-> TRUE]
    /\ UNCHANGED opened_at
RecordSuccess(p, b) ==
    /\ fail_counter' = [fail_counter EXCEPT ![b] = CounterAfterSuccess(b)]
    /\ consec' = [consec EXCEPT ![b] = 0]
    /\ cb_state' = [cb_state EXCEPT ![b] = "closed"]
    /\ Notify(b, cb_state[b], "closed", 0)
    /\ out' = [proc |-> p, breaker |-> b, kind |-> "returned", executed |-> TRUE]
    /\ UNCHANGED opened_at

\* func raised: _handle_error increments the counter; the state object
\* that ran the call (st) opens the breaker if it is the closed one and the
\* counter is at fail_max, or if it is the half-open one; opening records
\* opened_at = utcnow() and replaces the error by CircuitBreakerError.
Opens_HalfOpenOnly(st, b, count) == st = "half-open"
Opens(st, b, count) ==
    \/ st = "half-open"
    \/ st = "closed" /\ Tripped(b, count)
RecordFailure(p, b, st) ==
    LET count == fail_counter[b] + 1
        opens == Opens(st, b, count)
    IN
    /\ fail_counter' = [fail_counter EXCEPT ![b] = count]
    /\ consec' = [consec EXCEPT ![b] = @ + 1]
    /\ cb_state' = [cb_state EXCEPT ![b] = IF opens THEN "open" ELSE @]
    /\ Notify(b, cb_state[b], IF opens THEN "open" ELSE cb_state[b], count)
    /\ opened_at' = [opened_at EXCEPT ![b] = IF opens THEN now ELSE @]
    /\ out' = [proc |-> p, breaker |-> b,
               kind |-> IF opens THEN "CircuitBreakerError" ELSE "op_error",
               executed |-> TRUE]

CallSuccess(p) ==
    /\ caller[p].pos = "in_op"
    /\ caller[p].inner \in {"none", "returned"}
    /\ RecordSuccess(p, caller[p].breaker)

CallFailure(p) ==
    /\ caller[p].pos = "in_op"
    /\ caller[p].inner # "running"
    /\ RecordFailure(p, caller[p].breaker, caller[p].state)

\* The guarded call is over: the lock is released.
CallLeave(p) ==
    /\ cb_lock' = [cb_lock EXCEPT ![caller[p].breaker] = 0]
    /\ caller' = [caller EXCEPT ![p] = NoCaller]
    /\ UNCHANGED <<now, ncalls, listeners, seen, libVars, gwVars>>

\* get_db(): if 'db' not in g: g.db = db_breaker.call(current_app.pool.acquire)
get_db(p) ==
    /\ ~g_db[p]
    /\ CallEnter(p, "database", "get_db")

\* pool.acquire() returns a connection (one of the PoolMax is free).
acquire_returns(p) ==
    /\ caller[p].via = "get_db"
    /\ pool_busy < PoolMax
    /\ CallSuccess(p)
    /\ CallLeave(p)
    /\ g_db' = [g_db EXCEPT ![p] = TRUE]
    /\ pool_busy' = pool_busy + 1
    /\ UNCHANGED pool_other

\* pool.acquire() raises; get_db logs and re-raises.
acquire_raises(p) ==
    /\ caller[p].via = "get_db"
    /\ CallFailure(p)
    /\ CallLeave(p)
    /\ UNCHANGED <<g_db, poolVars>>

\* close_db(): db = g.pop('db', None); db.close() returns it to the pool.
close_db(p) ==
    /\ caller[p].pos = "idle"
    /\ g_db[p]
    /\ g_db' = [g_db EXCEPT ![p] = FALSE]
    /\ pool_busy' = PoolAfterClose(p)
    /\ UNCHANGED pool_other
    /\ out' = NoOut
    /\ UNCHANGED <<cb_state, fail_counter, opened_at, cb_lock, caller, now,
                   ncalls, consec, listeners, seen, notified, libVars, gwVars>>

\* A function decorated with circuit_breaker_check(name) is called:
\* selected_breaker.call(f, *args, **kwargs)
wrapper(p, name) ==
    CallEnter(p, selected_breaker(name), "wrapper")

\* The decorated function calls get_db(): db_breaker.call(pool.acquire),
\* nested in the decorator's call.  An exception of get_db leaves the
\* decorated function (the view functions catch only oracledb.Error
\* inside their try blocks, which get_db precedes).
wrapped_get_db(p) ==
    LET b == "database" IN
    /\ caller[p].pos = "in_op"
    /\ caller[p].via = "wrapper"
    /\ caller[p].inner = "none"
    /\ ~g_db[p]
    /\ LockFree(p, b)
    /\ IF Rejects(b)
       THEN /\ out' = Rejection(p, b)
            /\ caller' = [caller EXCEPT ![p].inner = "rejected"]
            /\ UNCHANGED <<cb_state, cb_lock, notified>>
       ELSE /\ cb_state' = [cb_state EXCEPT ![b] = AfterCheck(b)]
            /\ Notify(b, cb_state[b], AfterCheck(b), fail_counter[b])
            /\ cb_lock' = [cb_lock EXCEPT ![b] = p]
            /\ caller' = [caller EXCEPT ![p].inner = "running"]
            /\ out' = NoOut
    /\ UNCHANGED <<fail_counter, opened_at, g_db, poolVars, now, ncalls, consec,
                   listeners, seen, libVars, gwVars>>

\* The nested call is over: its lock is released unless the decorator's
\* call holds the same lock.
InnerLeave(p, result) ==
    /\ cb_lock' = [cb_lock EXCEPT
                     !["database"] = IF caller[p].breaker = "database" THEN p ELSE 0]
    /\ caller' = [caller EXCEPT ![p].inner = result]
    /\ UNCHANGED <<now, ncalls, listeners, seen, libVars, gwVars>>

wrapped_acquire_returns(p) ==
    /\ caller[p].inner = "running"
    /\ pool_busy < PoolMax
    /\ RecordSuccess(p, "database")
    /\ InnerLeave(p, "returned")
    /\ g_db' = [g_db EXCEPT ![p] = TRUE]
    /\ pool_busy' = pool_busy + 1
    /\ UNCHANGED pool_other

wrapped_acquire_raises(p) ==
    /\ caller[p].inner = "running"
    /\ RecordFailure(p, "database", cb_state["database"])
    /\ InnerLeave(p, IF Opens(cb_state["database"], "database",
                              fail_counter["database"] + 1)
                     THEN "tripped" ELSE "op_error")
    /\ UNCHANGED <<g_db, poolVars>>

\* The decorated function returns, or raises (the wrapper logs, re-raises).
wrapped_returns(p) ==
    /\ caller[p].via = "wrapper"
    /\ CallSuccess(p)
    /\ CallLeave(p)
    /\ UNCHANGED <<g_db, poolVars>>

wrapped_raises(p) ==
    /\ caller[p].via = "wrapper"
    /\ CallFailure(p)
    /\ CallLeave(p)
    /\ UNCHANGED <<g_db, poolVars>>

\* Time passes.
Tick ==
    /\ now + TickLen <= MaxTime
    /\ now' = now + TickLen
    /\ out' = NoOut
    /\ UNCHANGED <<cb_state, fail_counter, opened_at, cb_lock, caller, g_db, poolVars,
                   ncalls, consec, listeners, seen, notified, libVars, gwVars>>

NextBreaker ==
    \/ \E p \in Procs :
          \/ get_db(p)
          \/ acquire_returns(p)
          \/ acquire_raises(p)
          \/ close_db(p)
          \/ \E name \in BreakerNames : wrapper(p, name)
          \/ wrapped_returns(p)
          \/ wrapped_raises(p)
    \/ Tick

(***************************************************************************)
(* Failing calls with the recording of a failure in its two halves:        *)
(* _inc_counter's fail_counter += 1 reads the counter and then writes it.  *)
(* Both halves run inside breaker.call, that is, under the breaker's lock. *)
(***************************************************************************)
\* func raised; fail_counter += 1 reads the counter.
failure_read(p) ==
    /\ caller[p].pos = "in_op"
    /\ seen' = [seen EXCEPT ![p] = fail_counter[caller[p].breaker]]
    /\ caller' = [caller EXCEPT ![p].pos = "recording"]
    /\ UNCHANGED <<cb_state, fail_counter, opened_at, cb_lock, g_db, poolVars,
                   now, out, ncalls, consec, listeners, notified, libVars,
                   gwVars>>

\* fail_counter += 1 writes the counter; the state object that ran the call
\* opens the breaker as in RecordFailure; the call is over.
failure_write(p) ==
    LET b == caller[p].breaker
        count == seen[p] + 1
        opens == Opens(caller[p].state, b, count)
    IN
    /\ caller[p].pos = "recording"
    /\ fail_counter' = [fail_counter EXCEPT ![b] = count]
    /\ consec' = [consec EXCEPT ![b] = @ + 1]
    /\ cb_state' = [cb_state EXCEPT ![b] = IF opens THEN "open" ELSE @]
    /\ Notify(b, cb_state[b], IF opens THEN "open" ELSE cb_state[b], count)
    /\ opened_at' = [opened_at EXCEPT ![b] = IF opens THEN now ELSE @]
    /\ out' = [proc |-> p, breaker |-> b,
               kind |-> IF opens THEN "CircuitBreakerError" ELSE "op_error",
               executed |-> TRUE]
    /\ seen' = [seen EXCEPT ![p] = 0]
    /\ cb_lock' = [cb_lock EXCEPT ![b] = 0]
    /\ caller' = [caller EXCEPT ![p] = NoCaller]
    /\ UNCHANGED <<g_db, poolVars, now, ncalls, listeners, libVars, gwVars>>

\* Calls that all fail, made by concurrent threads.
NextRecord ==
    \/ \E p \in Procs :
          \/ get_db(p)
          \/ \E name \in BreakerNames : wrapper(p, name)
          \/ failure_read(p)
          \/ failure_write(p)
    \/ Tick

(***************************************************************************)
(* The authentication gateway (src/authentication-gateway/app.py).         *)
(* An Authorization header is the text                                     *)
(*     scheme, `spaces' blanks, token, `extra' further words               *)
(* or is absent; a token is well formed or not, carries a signature that   *)
(* verifies under SECRET_KEY or not, and an exp claim.                     *)
(***************************************************************************)
PUBLIC_PATHS_NoLogin == {"metrics", "health", "api/v1/register"}
PUBLIC_PATHS == {"metrics", "health", "api/v1/register", "api/v1/login"}

Paths ==
    {"metrics", "health", "api/v1/register", "api/v1/login",
     "api/v1/books", "health/", "api/v1/login/x"}
Methods == {"GET", "POST"}

EmptyToken == [wellformed |-> FALSE, sig_ok |-> FALSE, exp |-> 0]
Tokens ==
    [wellformed : {TRUE}, sig_ok : BOOLEAN, exp : {now - 1, now, now + 1}]
        \cup {[wellformed |-> FALSE, sig_ok |-> FALSE, exp |-> now + 1]}
NoHeader ==
    [present |-> FALSE, scheme |-> "", spaces |-> 0, token |-> EmptyToken,
     extra |-> 0]
AuthHeaders ==
    {NoHeader, [NoHeader EXCEPT !.present = TRUE]}
        \cup [present : {TRUE}, scheme : {"Bearer"}, spaces : 0..2,
              token : Tokens, extra : 0..1]
        \cup [present : {TRUE}, scheme : {"bearer", "Basic"}, spaces : {1},
              token : Tokens, extra : {0}]

\* Statuses the upstream answers with; 302 carries a Location header.
UpStatuses == {200, 302, 401, 500, 503}
Redirects == {302}

NoGwReq == [path |-> "none", method |-> "none", auth |-> NoHeader]
NoUpResp == [status |-> 0, chunks |-> 0, statuses |-> <<>>]
NoGwResp ==
    [status |-> 0, kind |-> "none", message |-> "none", chunks |-> 0,
     complete |-> FALSE, unhandled |-> FALSE]

\* jwt.decode(token, SECRET_KEY, algorithms=['HS256']): structure, then
\* signature, then the exp claim against the clock.
decode_NoSignature(token) ==
    IF ~token.wellformed THEN "DecodeError"
    ELSE IF token.exp <= now THEN "ExpiredSignatureError"
    ELSE "ok"
decode(token) ==
    IF ~token.wellformed THEN "DecodeError"
    ELSE IF ~token.sig_ok THEN "InvalidSignatureError"
    ELSE IF token.exp <= now THEN "ExpiredSignatureError"
    ELSE "ok"

\* auth_header.startswith("Bearer ") and auth_header.split(" ")[1]
startswith_Bearer(h) == h.scheme = "Bearer" /\ h.spaces >= 1
split_1(h) == IF h.spaces = 1 THEN h.token ELSE EmptyToken

validate_jwt(h) ==
    IF ~h.present \/ (h.scheme = "" /\ h.spaces = 0) \/ ~startswith_Bearer(h)
    THEN "InvalidTokenError"
    ELSE decode(split_1(h))

\* except jwt.ExpiredSignatureError ... except jwt.InvalidTokenError ...
auth_error_message_InvalidFirst(exc) == "Token invalid"
auth_error_message(exc) ==
    IF exc = "ExpiredSignatureError" THEN "Token expired" ELSE "Token invalid"

\* jsonify({...}), status
GwJson(status, kind, message) ==
    [status |-> status, kind |-> kind, message |-> message, chunks |-> 0,
     complete |-> TRUE, unhandled |-> FALSE]

GwFrame == UNCHANGED <<libVars, cbVars, relayVars>>

\* GET / : the gateway's own index page.
index ==
    /\ gw_pc = "idle"
    /\ gw_req' = [path |-> "", method |-> "GET", auth |-> NoHeader]
    /\ gw_resp' = GwJson(200, "index", "API Gateway is running.")
    /\ gw_pc' = "done"
    /\ UNCHANGED <<forwarded, up_resp>>
    /\ GwFrame

\* gateway(path), up to the call of requests.request: a protected path
\* needs a valid token, or the answer is 401; then the request is sent to
\* FORWARD_URL/path.
gateway(path, method, h) ==
    LET checked == path \notin PUBLIC_PATHS
        exc == validate_jwt(h)
    IN
    /\ gw_pc = "idle"
    /\ gw_req' = [path |-> path, method |-> method, auth |-> h]
    /\ IF checked /\ exc # "ok"
       THEN /\ gw_resp' = GwJson(401, "auth_error", auth_error_message(exc))
            /\ gw_pc' = "done"
            /\ UNCHANGED forwarded
       ELSE /\ forwarded' = <<[method |-> method, path |-> path]>>
            /\ gw_pc' = "awaiting"
            /\ UNCHANGED gw_resp
    /\ UNCHANGED up_resp
    /\ GwFrame

\* requests.request raises a RequestException (no connection, or the 30 s
\* timeout before the response headers): the except clause answers 503.
upstream_unreachable ==
    /\ gw_pc = "awaiting"
    /\ gw_resp' = GwJson(503, "gateway_error",
                         "Error connecting to the upstream service")
    /\ gw_pc' = "done"
    /\ UNCHANGED <<gw_req, forwarded, up_resp>>
    /\ GwFrame

\* The upstream answers with a redirect: requests.request follows it
\* (allow_redirects is not switched off) with a new request, as GET after a
\* 302, and raises TooManyRedirects, a RequestException, at its limit.
upstream_redirects(status) ==
    /\ gw_pc = "awaiting"
    /\ status \in Redirects
    /\ IF Len(forwarded) <= MaxRedirects
       THEN /\ forwarded' = Append(forwarded, [method |-> "GET", path |-> "Location"])
            /\ UNCHANGED <<gw_pc, gw_resp>>
       ELSE /\ gw_resp' = GwJson(503, "gateway_error",
                                 "Error connecting to the upstream service")
            /\ gw_pc' = "done"
            /\ UNCHANGED forwarded
    /\ up_resp' = [status |-> status, chunks |-> 0,
                   statuses |-> Append(up_resp.statuses, status)]
    /\ UNCHANGED gw_req
    /\ GwFrame

\* The upstream's response headers arrive: the view returns
\* Response(stream_with_context(resp.iter_content(1024)), resp.status_code,
\* headers); no part of the body has been read yet.
upstream_responds(status, n) ==
    /\ gw_pc = "awaiting"
    /\ status \notin Redirects
    /\ up_resp' = [status |-> status, chunks |-> n,
                   statuses |-> Append(up_resp.statuses, status)]
    /\ gw_resp' = [status |-> status, kind |-> "upstream", message |-> "none",
                   chunks |-> 0, complete |-> FALSE, unhandled |-> FALSE]
    /\ gw_pc' = "streaming"
    /\ UNCHANGED <<gw_req, forwarded>>
    /\ GwFrame

\* The WSGI server iterates the generator: one chunk is read from the
\* upstream and written to the client.
stream_chunk ==
    /\ gw_pc = "streaming"
    /\ gw_resp.chunks < up_resp.chunks
    /\ gw_resp' = [gw_resp EXCEPT !.chunks = @ + 1]
    /\ UNCHANGED <<gw_pc, gw_req, forwarded, up_resp>>
    /\ GwFrame

\* The generator is exhausted: the response is complete.
stream_end ==
    /\ gw_pc = "streaming"
    /\ gw_resp.chunks = up_resp.chunks
    /\ gw_resp' = [gw_resp EXCEPT !.complete = TRUE]
    /\ gw_pc' = "done"
    /\ UNCHANGED <<gw_req, forwarded, up_resp>>
    /\ GwFrame

\* Reading the body fails (the upstream stalls for 30 s, or the connection
\* breaks): iter_content raises inside the generator, which runs after the
\* view function and its try block have returned.
stream_fails ==
    /\ gw_pc = "streaming"
    /\ gw_resp.chunks < up_resp.chunks
    /\ gw_resp' = [gw_resp EXCEPT !.unhandled = TRUE]
    /\ gw_pc' = "done"
    /\ UNCHANGED <<gw_req, forwarded, up_resp>>
    /\ GwFrame

\* The request is over; the gateway keeps nothing from it.
gateway_teardown ==
    /\ gw_pc = "done"
    /\ gw_pc' = "idle"
    /\ gw_req' = NoGwReq
    /\ forwarded' = <<>>
    /\ up_resp' = NoUpResp
    /\ gw_resp' = NoGwResp
    /\ GwFrame

NextGateway ==
    \/ index
    \/ \E path \in Paths, method \in Methods, h \in AuthHeaders :
          gateway(path, method, h)
    \/ upstream_unreachable
    \/ \E status \in UpStatuses : upstream_redirects(status)
    \/ \E status \in UpStatuses, n \in 0..MaxChunks : upstream_responds(status, n)
    \/ stream_chunk
    \/ stream_end
    \/ stream_fails
    \/ gateway_teardown

(***************************************************************************)
(* The relay of one admitted request, in detail: what is handed to         *)
(* requests.request, which upstream headers the Response gets, and how the *)
(* body travels chunk by chunk through resp.iter_content(chunk_size=1024). *)
(***************************************************************************)
\* str.lower() on the header names that occur.
Lower_Identity(name) == name
Lower(name) ==
    CASE name = "Host" -> "host"
      [] name = "Accept" -> "accept"
      [] name = "Authorization" -> "authorization"
      [] name \in {"Content-Type", "content-type"} -> "content-type"
      [] name \in {"Content-Length", "content-length"} -> "content-length"
      [] name \in {"Transfer-Encoding", "transfer-encoding"} -> "transfer-encoding"
      [] name \in {"Content-Encoding", "content-encoding"} -> "content-encoding"
      [] name \in {"Connection", "CONNECTION", "connection"} -> "connection"
      [] name \in {"Set-Cookie", "set-cookie"} -> "set-cookie"
      [] name \in {"X-Request-Id", "x-request-id"} -> "x-request-id"

excluded_headers ==
    {"content-encoding", "content-length", "transfer-encoding", "connection"}

\* Requests the relay is given.
RelayPaths == {"health", "api/v1/books"}
ValidHeader ==
    [present |-> TRUE, scheme |-> "Bearer", spaces |-> 1,
     token |-> [wellformed |-> TRUE, sig_ok |-> TRUE, exp |-> now + 1],
     extra |-> 0]
RelayAuth == {NoHeader, ValidHeader}
PlainHeaders ==
    {<<"Host", "gateway:5000">>, <<"Accept", "*/*">>,
     <<"Content-Type", "application/json">>}
\* The query string, as its key=value pairs from left to right.
QueryKeys == {"q", "page"}
QueryValues == {"1", "2"}
SeqsUpTo(S, n) == UNION {[1..k -> S] : k \in 0..n}
QueryStrings == SeqsUpTo(QueryKeys \X QueryValues, MaxParams)
Bodies == {"", "{json}"}

\* Responses of the upstream: header lines in any spelling, repeated lines,
\* and bodies around the chunk boundaries.
UpHeaderLines ==
    {<<"Content-Length", "n">>, <<"content-length", "n">>,
     <<"Transfer-Encoding", "chunked">>, <<"Content-Encoding", "gzip">>,
     <<"Connection", "keep-alive">>, <<"CONNECTION", "close">>,
     <<"Content-Type", "application/json">>, <<"Set-Cookie", "a=1">>,
     <<"Set-Cookie", "b=2">>, <<"X-Request-Id", "7">>}
UpHeaders == SeqsUpTo(UpHeaderLines, MaxHeaders)
RelayStatuses == {200, 500}
BodySizes ==
    {n \in {k * ChunkSize + r : k \in 0..MaxChunks, r \in {0, 1, ChunkSize - 1}} :
        n <= MaxChunks * ChunkSize}

NoRlReq ==
    [method |-> "none", path |-> "none", query |-> <<>>, headers |-> {},
     body |-> ""]
NoRlFwd ==
    [method |-> "none", url |-> <<>>, headers |-> {}, data |-> "",
     params |-> <<>>]
NoRlUp == [status |-> 0, headers |-> <<>>, size |-> 0, read |-> 0]
NoRlResp == [status |-> 0, headers |-> <<>>]

\* request.args is a werkzeug MultiDict; requests encodes a mapping through
\* its items(), and MultiDict.items() gives each key once, with the first of
\* its values.
items(query) ==
    LET first(i) == \A j \in 1..(i - 1) : query[j][1] # query[i][1]
        F[i \in 0..Len(query)] ==
            IF i = 0 THEN <<>>
            ELSE IF first(i) THEN Append(F[i - 1], query[i]) ELSE F[i - 1]
    IN F[Len(query)]

\* {key: value for (key, value) in request.headers if key.lower() != 'host'}
forward_headers(headers) == {kv \in headers : Lower(kv[1]) # "host"}

\* [(key, value) for (key, value) in resp.raw.headers.items()
\*  if key.lower() not in excluded_headers]
response_headers(headers) ==
    LET keep(kv) == Lower(kv[1]) \notin excluded_headers
    IN SelectSeq(headers, keep)

RelayFrame == UNCHANGED <<libVars, cbVars, gw_pc, gw_req, forwarded, up_resp, gw_resp>>

\* gateway(path) from full_url to the call of requests.request, for a
\* request that passed the check of the token.
relay_forward(method, path, h, query, plain, body) ==
    LET headers == plain \cup (IF h.present THEN {<<"Authorization", h>>} ELSE {})
    IN
    /\ rl_pc = "idle"
    /\ path \in PUBLIC_PATHS \/ validate_jwt(h) = "ok"
    /\ rl_req' = [method |-> method, path |-> path, query |-> query,
                  headers |-> headers, body |-> body]
    /\ rl_fwd' = [method |-> method, url |-> <<"FORWARD_URL", "/", path>>,
                  headers |-> forward_headers(headers), data |-> body,
                  params |-> items(query)]
    /\ rl_pc' = "forwarding"
    /\ UNCHANGED <<rl_up, rl_resp, rl_held, rl_sent>>
    /\ RelayFrame

\* requests.request sends the request upstream and waits for the answer;
\* the request is not used again.
relay_send ==
    /\ rl_pc = "forwarding"
    /\ rl_req' = NoRlReq
    /\ rl_fwd' = NoRlFwd
    /\ rl_pc' = "awaiting"
    /\ UNCHANGED <<rl_up, rl_resp, rl_held, rl_sent>>
    /\ RelayFrame

\* requests.request returns when the upstream's status line and headers are
\* in (stream=True): the view returns Response(generator, status, headers).
relay_upstream_responds(status, headers, size) ==
    /\ rl_pc = "awaiting"
    /\ rl_up' = [status |-> status, headers |-> headers, size |-> size, read |-> 0]
    /\ rl_resp' = [status |-> status, headers |-> response_headers(headers)]
    /\ rl_pc' = "streaming"
    /\ UNCHANGED <<rl_req, rl_fwd, rl_held, rl_sent>>
    /\ RelayFrame

\* The generator runs until its next yield only when the server asks for
\* the next item, which it does after writing the previous one.
CanRead_Ahead == TRUE
CanRead == rl_held = <<>>

\* iter_content(chunk_size=1024): the next at most 1024 bytes of the body.
next_chunk(read, size) ==
    [from |-> read + 1,
     to |-> IF read + ChunkSize <= size THEN read + ChunkSize ELSE size]

\* The generator reads one chunk from the upstream and yields it.
relay_read ==
    /\ rl_pc = "streaming"
    /\ CanRead
    /\ rl_up.read < rl_up.size
    /\ rl_held' = Append(rl_held, next_chunk(rl_up.read, rl_up.size))
    /\ rl_up' = [rl_up EXCEPT !.read = next_chunk(rl_up.read, rl_up.size).to]
    /\ UNCHANGED <<rl_pc, rl_req, rl_fwd, rl_resp, rl_sent>>
    /\ RelayFrame

\* The server writes the yielded chunk to the client.
relay_write ==
    /\ rl_pc = "streaming"
    /\ rl_held # <<>>
    /\ rl_sent' = Append(rl_sent, Head(rl_held))
    /\ rl_held' = Tail(rl_held)
    /\ UNCHANGED <<rl_pc, rl_req, rl_fwd, rl_up, rl_resp>>
    /\ RelayFrame

\* The body is exhausted: the generator ends, the response is complete.
relay_end ==
    /\ rl_pc = "streaming"
    /\ rl_up.read = rl_up.size
    /\ rl_held = <<>>
    /\ rl_pc' = "done"
    /\ UNCHANGED <<rl_req, rl_fwd, rl_up, rl_resp, rl_held, rl_sent>>
    /\ RelayFrame

\* The request is over; the gateway keeps nothing from it.
relay_teardown ==
    /\ rl_pc = "done"
    /\ rl_pc' = "idle"
    /\ rl_req' = NoRlReq
    /\ rl_fwd' = NoRlFwd
    /\ rl_up' = NoRlUp
    /\ rl_resp' = NoRlResp
    /\ rl_held' = <<>>
    /\ rl_sent' = <<>>
    /\ RelayFrame

NextRelay ==
    \/ /\ rl_pc = "idle"
       /\ \E method \in Methods, path \in RelayPaths, h \in RelayAuth,
             query \in QueryStrings, plain \in SUBSET PlainHeaders,
             body \in Bodies :
             relay_forward(method, path, h, query, plain, body)
    \/ relay_send
    \/ /\ rl_pc = "awaiting"
       /\ \E status \in RelayStatuses, headers \in UpHeaders, size \in BodySizes :
             relay_upstream_responds(status, headers, size)
    \/ relay_read
    \/ relay_write
    \/ relay_end
    \/ relay_teardown

(***************************************************************************)
(* Initial state: the book has any quantity 0..MaxQty, no borrow records,  *)
(* no request in progress, every breaker closed with no failure counted.   *)
(***************************************************************************)
InitCommon ==
    /\ quantity \in [BookIds -> 0..MaxQty]
    /\ initQty = quantity
    /\ records = <<>>
    /\ returnWrites = <<>>
    /\ pc = [p \in Procs |-> "idle"]
    /\ req = [p \in Procs |-> NoReq]
    /\ record_id = [p \in Procs |-> NULL]
    /\ txQty = [p \in Procs |-> 0]
    /\ txInsert = [p \in Procs |-> FALSE]
    /\ txReturn = [p \in Procs |-> NULL]
    /\ resp = NoResp
    /\ nreq = 0
    /\ served = [s \in Counted |-> 0]
    /\ log = <<>>
    /\ cb_state = [b \in Breakers |-> "closed"]
    /\ fail_counter = [b \in Breakers |-> 0]
    /\ opened_at = [b \in Breakers |-> NULL]
    /\ cb_lock = [b \in Breakers |-> 0]
    /\ caller = [p \in Procs |-> NoCaller]
    /\ g_db = [p \in Procs |-> FALSE]
    /\ pool_busy = 0
    /\ pool_other = 0
    /\ now = TickLen
    /\ out = NoOut
    /\ ncalls = 0
    /\ consec = [b \in Breakers |-> 0]
    /\ listeners = [b \in Breakers |-> <<>>]
    /\ seen = [p \in Procs |-> 0]
    /\ book_req = [p \in Procs |-> NoBookReq]
    /\ book_row = [p \in Procs |-> NULL]
    /\ added = <<>>
    /\ notified = <<>>
    /\ gw_pc = "idle"
    /\ gw_req = NoGwReq
    /\ forwarded = <<>>
    /\ up_resp = NoUpResp
    /\ gw_resp = NoGwResp
    /\ rl_pc = "idle"
    /\ rl_req = NoRlReq
    /\ rl_fwd = NoRlFwd
    /\ rl_up = NoRlUp
    /\ rl_resp = NoRlResp
    /\ rl_held = <<>>
    /\ rl_sent = <<>>

Init == InitCommon /\ sequential = FALSE

\* The same service, driven by a client that sends one request at a time.
InitSeq == InitCommon /\ sequential = TRUE

(***************************************************************************)
(* Request handlers.                                                       *)
(***************************************************************************)
\* A POST /borrow or POST /return arrives with body {user_id, book_id};
\* db = get_db() takes a connection from the pool.
StartRequest(p, op, u, b) ==
    /\ pc[p] = "idle"
    /\ nreq < (IF sequential THEN MaxSeqReqs ELSE MaxReqs)
    /\ sequential => InFlight = {}
    /\ pool_busy < PoolMax
    /\ g_db' = [g_db EXCEPT ![p] = TRUE]
    /\ pool_busy' = pool_busy + 1
    /\ nreq' = nreq + 1
    /\ req' = [req EXCEPT ![p] = [op |-> op, user_id |-> u, book_id |-> b]]
    /\ pc' = [pc EXCEPT ![p] = IF op = "borrow" THEN "b_sel_user"
                                ELSE "r_sel_record"]
    /\ resp' = NoResp
    /\ UNCHANGED <<dbVars, txVars, record_id, served, initQty, sequential, bookVars, log,
                   brVars, pool_other, gwVars>>

\* SELECT id FROM users WHERE id = :1
borrow_select_user_Skipped(p) ==
    /\ pc[p] = "b_sel_user"
    /\ UNCHANGED <<dbVars, txVars, nreq, initQty, sequential, bookVars>>
    /\ Goto(p, "b_sel_book") /\ UNCHANGED record_id
borrow_select_user(p) ==
    /\ pc[p] = "b_sel_user"
    /\ UNCHANGED <<dbVars, txVars, nreq, initQty, sequential, bookVars>>
    /\ IF req[p].user_id \notin UserIds
       THEN Respond(p, "user_not_found")
       ELSE Goto(p, "b_sel_book") /\ UNCHANGED record_id

\* SELECT title FROM books WHERE id = :1
borrow_select_book(p) ==
    /\ pc[p] = "b_sel_book"
    /\ UNCHANGED <<dbVars, txVars, nreq, initQty, sequential, bookVars>>
    /\ IF req[p].book_id \notin BookIds
       THEN Respond(p, "book_not_found")
       ELSE Goto(p, "b_update") /\ UNCHANGED record_id

\* UPDATE books SET quantity = quantity - 1 WHERE id = :1 AND quantity > 0
\* A matching row is locked first (the statement waits for the lock and
\* then sees the committed value); with no matching row cursor.rowcount is
\* 0: db.rollback(); return 400 "Book is out of stock".
borrow_update_Unchecked(p) ==
    LET b == req[p].book_id IN
    /\ pc[p] = "b_update"
    /\ StockAvailable(quantity[b]) => ~BookLockedByOther(p, b)
    /\ txQty' = [txQty EXCEPT ![p] = IF StockAvailable(quantity[b]) THEN -1 ELSE 0]
    /\ UNCHANGED <<txInsert, txReturn, dbVars, record_id>>
    /\ Goto(p, "b_insert")
    /\ UNCHANGED <<nreq, initQty, sequential, bookVars>>
borrow_update(p) ==
    LET b == req[p].book_id IN
    /\ pc[p] = "b_update"
    /\ IF StockAvailable(quantity[b])
       THEN /\ ~BookLockedByOther(p, b)
            /\ txQty' = [txQty EXCEPT ![p] = -1]
            /\ UNCHANGED <<txInsert, txReturn, dbVars, record_id>>
            /\ Goto(p, "b_insert")
       ELSE /\ Rollback(p)
            /\ Respond(p, "out_of_stock")
    /\ UNCHANGED <<nreq, initQty, sequential, bookVars>>

\* INSERT INTO borrow_records (user_id, book_id, borrow_date)
borrow_insert(p) ==
    /\ pc[p] = "b_insert"
    /\ txInsert' = [txInsert EXCEPT ![p] = TRUE]
    /\ Goto(p, "b_commit")
    /\ UNCHANGED <<dbVars, txQty, txReturn, record_id, nreq, initQty, sequential, bookVars>>

\* db.commit(); return 200 "Successfully borrowed"
borrow_commit(p) ==
    /\ pc[p] = "b_commit"
    /\ Commit(p)
    /\ Respond(p, "borrowed")
    /\ UNCHANGED <<nreq, initQty, sequential, bookVars>>

\* SELECT id FROM borrow_records WHERE user_id = :1 AND book_id = :2
\*   AND return_date IS NULL;  record = cursor.fetchone()
\* With several matching rows fetchone() yields any one of them.
return_select_record(p) ==
    LET found == ActiveRecords(req[p].user_id, req[p].book_id) IN
    /\ pc[p] = "r_sel_record"
    /\ UNCHANGED <<dbVars, txVars, nreq, initQty, sequential, bookVars>>
    /\ IF found = {}
       THEN Respond(p, "no_active_record")
       ELSE /\ \E rid \in found : record_id' = [record_id EXCEPT ![p] = rid]
            /\ Goto(p, "r_upd_book")

\* SELECT title FROM books WHERE id = :1  (reads a column nothing writes)
\* UPDATE books SET quantity = quantity + 1 WHERE id = :1
return_update_book_NoIncrement(p) ==
    /\ pc[p] = "r_upd_book"
    /\ Goto(p, "r_upd_record")
    /\ UNCHANGED <<dbVars, txVars, record_id, nreq, initQty, sequential, bookVars>>
return_update_book(p) ==
    /\ pc[p] = "r_upd_book"
    /\ ~BookLockedByOther(p, req[p].book_id)
    /\ txQty' = [txQty EXCEPT ![p] = 1]
    /\ Goto(p, "r_upd_record")
    /\ UNCHANGED <<dbVars, txInsert, txReturn, record_id, nreq, initQty, sequential, bookVars>>

\* UPDATE borrow_records SET return_date = :1 WHERE id = :2
return_update_record(p) ==
    /\ pc[p] = "r_upd_record"
    /\ ~RecordLockedByOther(p, record_id[p])
    /\ txReturn' = [txReturn EXCEPT ![p] = record_id[p]]
    /\ Goto(p, "r_commit")
    /\ UNCHANGED <<dbVars, txQty, txInsert, record_id, nreq, initQty, sequential, bookVars>>

\* db.commit(); return 200 "Successfully returned"
return_commit(p) ==
    /\ pc[p] = "r_commit"
    /\ Commit(p)
    /\ Respond(p, "returned")
    /\ UNCHANGED <<nreq, initQty, sequential, bookVars>>

\* Positions inside the try block: the statement about to run may raise
\* oracledb.Error.
TryBlock == {"b_sel_user", "b_sel_book", "b_update", "b_insert", "b_commit",
             "r_sel_record", "r_upd_book", "r_upd_record", "r_commit"}

\* except oracledb.Error: db.rollback(); return 500 "Database error"
storage_error_Counted(p) ==
    /\ pc[p] \in TryBlock
    /\ Rollback(p)
    /\ Reply(p, "db_error")
    /\ fail_counter' = [fail_counter EXCEPT !["database"] = @ + 1]
    /\ UNCHANGED <<cb_state, opened_at, cb_lock, caller, now, out, ncalls,
                   consec, listeners, seen, notified>>
    /\ UNCHANGED <<nreq, initQty, sequential, bookVars>>
storage_error(p) ==
    /\ pc[p] \in TryBlock
    /\ Rollback(p)
    /\ Respond(p, "db_error")
    /\ UNCHANGED <<nreq, initQty, sequential, bookVars>>

borrow_book(p) ==
    \/ borrow_select_user(p)
    \/ borrow_select_book(p)
    \/ borrow_update(p)
    \/ borrow_insert(p)
    \/ borrow_commit(p)

return_book(p) ==
    \/ return_select_record(p)
    \/ return_update_book(p)
    \/ return_update_record(p)
    \/ return_commit(p)

Next ==
    \E p \in Procs :
        \/ \E op \in Ops, u \in UserArgs, b \in BookArgs : StartRequest(p, op, u, b)
        \/ borrow_book(p)
        \/ return_book(p)
        \/ storage_error(p)

Spec == Init /\ [][Next]_vars

SpecSeq == InitSeq /\ [][Next]_vars

(***************************************************************************)
(* Book maintenance: add_book (POST /books) and update_book                *)
(* (PUT /books/<id>).  Neither view looks at the sign of quantity; the     *)
(* table books declares quantity INTEGER NOT NULL CHECK(quantity >= 0).    *)
(***************************************************************************)
\* Bodies of the two requests: nothing, fields without quantity (update_book
\* only), or fields with quantity.
Quantities == -1..MaxQty
BookBodies ==
    {NoBookReq, [data |-> "title", quantity |-> NULL]}
        \cup {[data |-> "quantity", quantity |-> q] : q \in Quantities}

\* CREATE TABLE books (... quantity INTEGER NOT NULL CHECK(quantity >= 0))
CheckQuantity_None(q) == TRUE
CheckQuantity(q) == q >= 0

\* The response of a book request; its locals are gone.
BookReply(p, s) ==
    /\ Respond(p, s)
    /\ book_req' = [book_req EXCEPT ![p] = NoBookReq]
    /\ book_row' = [book_row EXCEPT ![p] = NULL]

\* POST /books arrives.  A body without quantity: 400 before get_db();
\* otherwise quantity = int(data['quantity']) and db = get_db().
add_book_arrives(p, body) ==
    /\ pc[p] = "idle"
    /\ nreq < MaxBookReqs
    /\ body.data # "title"
    /\ nreq' = nreq + 1
    /\ UNCHANGED <<dbVars, txVars, initQty, sequential, added>>
    /\ IF body.data = "none"
       THEN /\ BookReply(p, "missing_fields")
       ELSE /\ pool_busy < PoolMax
            /\ g_db' = [g_db EXCEPT ![p] = TRUE]
            /\ pool_busy' = pool_busy + 1
            /\ req' = [req EXCEPT ![p] = [op |-> "add", user_id |-> NULL,
                                          book_id |-> NULL]]
            /\ book_req' = [book_req EXCEPT ![p] = body]
            /\ pc' = [pc EXCEPT ![p] = "a_insert"]
            /\ resp' = NoResp
            /\ UNCHANGED <<record_id, served, log, brVars, pool_other, gwVars,
                           book_row>>

\* INSERT INTO books (title, author, quantity) ... RETURNING id; db.commit();
\* return 201.  A row the table refuses raises oracledb.IntegrityError:
\* except oracledb.Error: db.rollback(); return 500.
add_book_insert(p) ==
    /\ pc[p] = "a_insert"
    /\ UNCHANGED <<txVars, quantity, records, returnWrites, nreq, initQty,
                   sequential>>
    /\ IF CheckQuantity(book_req[p].quantity)
       THEN /\ added' = Append(added, book_req[p].quantity)
            /\ BookReply(p, "added")
       ELSE /\ UNCHANGED added
            /\ BookReply(p, "db_error")

\* PUT /books/<book_id> arrives; db = get_db().
update_book_arrives(p, b, body) ==
    /\ pc[p] = "idle"
    /\ nreq < MaxBookReqs
    /\ pool_busy < PoolMax
    /\ g_db' = [g_db EXCEPT ![p] = TRUE]
    /\ pool_busy' = pool_busy + 1
    /\ nreq' = nreq + 1
    /\ req' = [req EXCEPT ![p] = [op |-> "update", user_id |-> NULL, book_id |-> b]]
    /\ book_req' = [book_req EXCEPT ![p] = body]
    /\ pc' = [pc EXCEPT ![p] = "u_select"]
    /\ resp' = NoResp
    /\ UNCHANGED <<dbVars, txVars, record_id, served, initQty, sequential, log,
                   brVars, pool_other, gwVars, book_row, added>>

\* SELECT * FROM books WHERE id = :1; no row: 404; no body: 400; otherwise
\* existing_book_data[0] holds the committed row.
update_book_select(p) ==
    LET b == req[p].book_id IN
    /\ pc[p] = "u_select"
    /\ UNCHANGED <<dbVars, txVars, nreq, initQty, sequential, added>>
    /\ IF b \notin BookIds
       THEN BookReply(p, "book_not_found")
       ELSE IF book_req[p].data = "none"
       THEN BookReply(p, "no_data")
       ELSE /\ book_row' = [book_row EXCEPT ![p] = quantity[b]]
            /\ Goto(p, "u_update")
            /\ UNCHANGED <<record_id, book_req>>

\* quantity = data.get('quantity', existing_book_data[0]['quantity'])
UpdateQuantity(p) ==
    IF book_req[p].data = "quantity" THEN book_req[p].quantity
    ELSE book_row[p]

\* UPDATE books SET title = :1, author = :2, quantity = :3 WHERE id = :4;
\* db.commit(); return 200.  The statement waits for the row's lock, which
\* it holds until the commit.  A value the table refuses raises out of the
\* view (there is no try): 500, and close_db releases the connection with
\* nothing committed.
update_book_write(p) ==
    LET b == req[p].book_id IN
    /\ pc[p] = "u_update"
    /\ ~BookLockedByOther(p, b)
    /\ UNCHANGED <<txVars, records, returnWrites, nreq, initQty, sequential,
                   added>>
    /\ IF CheckQuantity(UpdateQuantity(p))
       THEN /\ quantity' = [quantity EXCEPT ![b] = UpdateQuantity(p)]
            /\ BookReply(p, "updated")
       ELSE /\ UNCHANGED quantity
            /\ BookReply(p, "unhandled_error")

add_book(p) ==
    \/ \E body \in BookBodies : add_book_arrives(p, body)
    \/ add_book_insert(p)

update_book(p) ==
    \/ \E b \in BookArgs, body \in BookBodies : update_book_arrives(p, b, body)
    \/ update_book_select(p)
    \/ update_book_write(p)

\* Book maintenance next to borrow and return of the same book.
NextBooks ==
    \E p \in Procs :
        \/ /\ pc[p] = "idle"
           /\ nreq < MaxBookReqs
           /\ \E op \in Ops, u \in UserIds, b \in BookIds : StartRequest(p, op, u, b)
        \/ borrow_book(p)
        \/ return_book(p)
        \/ add_book(p)
        \/ update_book(p)

SpecBooks == Init /\ [][NextBooks]_vars

\* Guarded calls on the circuit breakers, with the clock.
InitBreaker == Init /\ quantity = [b \in BookIds |-> MaxQty]

SpecBreaker == InitBreaker /\ [][NextBreaker]_vars
SpecRecord == InitBreaker /\ [][NextRecord]_vars
SpecGateway == InitBreaker /\ [][NextGateway]_vars
SpecRelay == InitBreaker /\ [][NextRelay]_vars

\* The decorator around functions that call get_db(): on the database breaker
\* itself (the decorator's default) and on another breaker.
NestedNames == {"db", "redis"}
NextNested ==
    \/ \E p \in Procs :
          \/ \E name \in NestedNames : wrapper(p, name)
          \/ wrapped_get_db(p)
          \/ wrapped_acquire_returns(p)
          \/ wrapped_acquire_raises(p)
          \/ wrapped_returns(p)
          \/ wrapped_raises(p)
          \/ close_db(p)
    \/ Tick
SpecNested == InitBreaker /\ [][NextNested]_vars

\* Borrow calls only, by existing users for the existing book, and the
\* store never fails.
NextBorrow ==
    \E p \in Procs :
        \/ \E u \in UserIds, b \in BookIds : StartRequest(p, "borrow", u, b)
        \/ borrow_book(p)

SpecBorrow == Init /\ [][NextBorrow]_vars

(***************************************************************************)
(* The pool under load: besides the handlers of Procs, other threads of    *)
(* the application take connections of the same pool (create_pool(max=5),  *)
(* default getmode: acquire waits for a free connection; timeout=60 is the *)
(* lifetime of idle connections) and may keep them.                        *)
(***************************************************************************)
PoolFrame ==
    UNCHANGED <<libVars, brVars, g_db, gwVars>>

\* Another thread's pool.acquire() returns.
other_acquire ==
    /\ pool_busy < PoolMax
    /\ pool_busy' = pool_busy + 1
    /\ pool_other' = pool_other + 1
    /\ PoolFrame

\* Another thread gives its connection back.
other_release ==
    /\ pool_other > 0
    /\ pool_busy' = pool_busy - 1
    /\ pool_other' = pool_other - 1
    /\ PoolFrame

NextPool ==
    \/ \E p \in Procs :
          \/ get_db(p)
          \/ acquire_returns(p)
          \/ acquire_raises(p)
          \/ close_db(p)
    \/ other_acquire
    \/ other_release

SpecPool == InitBreaker /\ [][NextPool]_vars

\* A thread that can go on does go on: a waiting acquire returns once a
\* connection stays free, and a finished request is torn down.  Nothing
\* makes a holder release, and nothing makes acquire raise.
FairPool ==
    /\ SpecPool
    /\ \A p \in Procs : WF_vars(acquire_returns(p)) /\ WF_vars(close_db(p))

(***************************************************************************)
(* A request from its arrival to its response: the view function checks    *)
(* the body, calls get_db() (db_breaker.call(pool.acquire)) outside its    *)
(* try block, then runs its statements.  An exception of get_db leaves the *)
(* view function; no error handler is registered, so Flask answers 500.    *)
(***************************************************************************)
\* data = request.get_json(); 400 if user_id or book_id is missing
request_arrives(p, op, u, b, complete) ==
    /\ pc[p] = "idle"
    /\ nreq < MaxArrivals
    /\ nreq' = nreq + 1
    /\ IF complete
       THEN /\ req' = [req EXCEPT ![p] = [op |-> op, user_id |-> u, book_id |-> b]]
            /\ pc' = [pc EXCEPT ![p] = "get_db"]
            /\ resp' = NoResp
            /\ UNCHANGED <<record_id, served, log, g_db, poolVars, gwVars>>
       ELSE Reply(p, "missing_fields")
    /\ UNCHANGED <<dbVars, txVars, initQty, sequential, bookVars, brVars>>

\* get_db(): db_breaker.call(...) waits for the breaker's lock and checks the
\* state; CircuitBreakerError is logged, re-raised and leaves the view.
request_get_db(p) ==
    LET b == "database" IN
    /\ pc[p] = "get_db"
    /\ LockFree(p, b)
    /\ ncalls' = ncalls + 1
    /\ IF Rejects(b)
       THEN /\ out' = Rejection(p, b)
            /\ Reply(p, "breaker_open")
            /\ UNCHANGED <<cb_state, cb_lock, caller, notified>>
       ELSE /\ cb_state' = [cb_state EXCEPT ![b] = AfterCheck(b)]
            /\ Notify(b, cb_state[b], AfterCheck(b), fail_counter[b])
            /\ cb_lock' = [cb_lock EXCEPT ![b] = p]
            /\ caller' = [caller EXCEPT ![p] = [pos |-> "in_op", breaker |-> b,
                                                state |-> AfterCheck(b),
                                                via |-> "get_db", inner |-> "none"]]
            /\ out' = NoOut
            /\ pc' = [pc EXCEPT ![p] = "acquire"]
            /\ resp' = NoResp
            /\ UNCHANGED <<req, record_id, served, log, g_db, poolVars, gwVars>>
    /\ UNCHANGED <<dbVars, txVars, nreq, initQty, sequential, bookVars, fail_counter,
                   opened_at, now, consec, listeners, seen>>

\* pool.acquire() returns a connection: g.db = connection, the view goes on.
request_acquire_returns(p) ==
    /\ pc[p] = "acquire"
    /\ pool_busy < PoolMax
    /\ RecordSuccess(p, "database")
    /\ cb_lock' = [cb_lock EXCEPT !["database"] = 0]
    /\ caller' = [caller EXCEPT ![p] = NoCaller]
    /\ g_db' = [g_db EXCEPT ![p] = TRUE]
    /\ pool_busy' = pool_busy + 1
    /\ pc' = [pc EXCEPT ![p] = IF req[p].op = "borrow" THEN "b_sel_user"
                                ELSE "r_sel_record"]
    /\ resp' = NoResp
    /\ UNCHANGED <<dbVars, txVars, req, record_id, served, log, nreq, initQty,
                   sequential, bookVars, now, ncalls, listeners, seen, pool_other, gwVars>>

\* pool.acquire() raises: the error (or CircuitBreakerError when the breaker
\* opens) is logged, re-raised and leaves the view.
request_acquire_raises(p) ==
    /\ pc[p] = "acquire"
    /\ RecordFailure(p, "database", cb_state["database"])
    /\ cb_lock' = [cb_lock EXCEPT !["database"] = 0]
    /\ caller' = [caller EXCEPT ![p] = NoCaller]
    /\ Reply(p, "acquire_failed")
    /\ UNCHANGED <<dbVars, txVars, nreq, initQty, sequential, bookVars, now, ncalls,
                   listeners, seen>>

NextRequest ==
    \E p \in Procs :
        \/ \E op \in Ops, u \in UserArgs, b \in BookIds, complete \in BOOLEAN :
              request_arrives(p, op, u, b, complete)
        \/ request_get_db(p)
        \/ request_acquire_returns(p)
        \/ request_acquire_raises(p)
        \/ borrow_book(p)
        \/ return_book(p)
        \/ storage_error(p)

SpecRequest == InitBreaker /\ [][NextRequest]_vars

\* get_breaker_status(): a dict of every breaker's state and fail_counter.
get_breaker_status(p) ==
    /\ pc[p] = "idle"
    /\ out' = [proc |-> p, breaker |-> "none", kind |-> "status",
               executed |-> FALSE,
               status |-> [b \in Breakers |->
                             [state |-> cb_state[b],
                              fail_counter |-> fail_counter[b]]]]
    /\ UNCHANGED <<cb_state, fail_counter, opened_at, cb_lock, caller, g_db,
                   poolVars, now, ncalls, consec, listeners, seen, notified,
                   libVars, gwVars>>

\* Requests and readings of the breaker status.
NextStatus ==
    \E p \in Procs :
        \/ \E op \in Ops, u \in UserIds, b \in BookIds :
              request_arrives(p, op, u, b, TRUE)
        \/ request_get_db(p)
        \/ request_acquire_returns(p)
        \/ request_acquire_raises(p)
        \/ borrow_book(p)
        \/ return_book(p)
        \/ storage_error(p)
        \/ get_breaker_status(p)

SpecStatus == InitBreaker /\ [][NextStatus]_vars

TypeOK ==
    /\ quantity \in [BookIds -> Int]
    /\ pc \in [Procs -> {"idle", "get_db", "acquire", "a_insert", "u_select",
                        "u_update"} \cup TryBlock]
    /\ book_req \in [Procs -> BookBodies]
    /\ txQty \in [Procs -> {-1, 0, 1}]
    /\ cb_state \in [Breakers -> {"closed", "open", "half-open"}]
    /\ fail_counter \in [Breakers -> Nat]
    /\ cb_lock \in [Breakers -> {0} \cup Procs]
    /\ \A p \in Procs :
          caller[p].inner \in {"none", "running", "returned", "op_error",
                               "tripped", "rejected"}

(***************************************************************************)
(* Properties of the inventory transactions.                               *)
(***************************************************************************)
Returned(b) ==
    {i \in 1..Len(records) : records[i].book_id = b /\ records[i].return_date # NULL}
Active(b) ==
    {i \in 1..Len(records) : records[i].book_id = b /\ records[i].return_date = NULL}
TxEmpty(p) == txQty[p] = 0 /\ ~txInsert[p] /\ txReturn[p] = NULL

\* C1: when n >= q borrow calls on a book of quantity q have all completed
\* (no returns, no storage errors), exactly q of them succeeded, the other
\* n - q got the out-of-stock error, and the quantity is 0.
C1_ExactlyQBorrowsSucceed ==
    \A b \in BookIds :
        (InFlight = {} /\ nreq >= initQty[b]) =>
            /\ served["borrowed"] = initQty[b]
            /\ served["out_of_stock"] = nreq - initQty[b]
            /\ quantity[b] = 0

C1_Witness ==
    /\ InFlight = {}
    /\ initQty[1] = MaxQty
    /\ served["borrowed"] = MaxQty
    /\ served["out_of_stock"] >= 2

\* C2: every book's quantity is >= 0 in every state, and a borrow issues
\* and commits its decrement only on a quantity that is > 0 just before.
C2_QuantityNeverNegative ==
    [][\A b \in BookIds :
          /\ quantity[b] >= 0 /\ quantity'[b] >= 0
          /\ quantity'[b] < quantity[b] => quantity[b] > 0
          /\ \A p \in Procs :
                (txQty[p] = 0 /\ txQty'[p] = -1 /\ req[p].book_id = b)
                    => quantity[b] > 0]_vars

C2_Witness ==
    /\ initQty[1] > 0
    /\ quantity[1] = 0
    /\ resp.kind = "out_of_stock"

\* C3: successful borrows minus the borrow records actually returned never
\* exceeds the quantity the book started with.
C3_LentOutAtMostInitial ==
    \A b \in BookIds :
        served["borrowed"] - Cardinality(Returned(b)) <= initQty[b]

\* C4: borrow is all-or-nothing: a committed decrement comes with exactly
\* one new active record of that book in the same step and a new record
\* only with the decrement; a storage error discards the pending decrement
\* and insert, and a handler that has responded holds no pending write.
C4_BorrowAllOrNothing ==
    [][/\ \A b \in BookIds :
            (quantity'[b] < quantity[b]) <=>
                /\ Len(records') = Len(records) + 1
                /\ records'[Len(records')].book_id = b
       /\ \A b \in BookIds :
            quantity'[b] < quantity[b] =>
                /\ quantity'[b] = quantity[b] - 1
                /\ records'[Len(records')].return_date = NULL
                /\ resp'.kind = "borrowed"
       /\ Len(records') >= Len(records)
       /\ resp'.kind = "db_error" => quantity' = quantity /\ records' = records
       /\ \A p \in Procs : pc'[p] = "idle" =>
            txQty'[p] = 0 /\ ~txInsert'[p] /\ txReturn'[p] = NULL]_vars

C4_Witness ==
    /\ resp.kind = "db_error"
    /\ resp.at = "b_commit"
    /\ quantity = initQty
    /\ records = <<>>
    /\ \A p \in Procs : TxEmpty(p)

\* C5: a conditional decrement that finds quantity 0 (and does not itself
\* raise a storage error) ends the request with the out-of-stock error,
\* status 400; that response leaves quantity and records as they were and
\* leaves nothing pending.
C5_OutOfStock ==
    [][\A p \in Procs :
          /\ (pc[p] = "b_update" /\ pc'[p] # "b_update"
                /\ quantity[req[p].book_id] = 0 /\ resp'.kind # "db_error")
                => (resp'.proc = p /\ resp'.kind = "out_of_stock")
          /\ (resp'.proc = p /\ resp'.kind = "out_of_stock")
                => /\ resp'.code = 400
                   /\ quantity[req[p].book_id] = 0
                   /\ quantity' = quantity
                   /\ records' = records
                   /\ txQty'[p] = 0 /\ ~txInsert'[p]]_vars

C5_Witness ==
    /\ resp.kind = "out_of_stock"
    /\ quantity[1] = 0
    /\ Len(records) = initQty[1]
    /\ initQty[1] > 0

\* C6: the return_date of a record is written at most once (and so each
\* record causes at most one quantity increment).
C6_ReturnDateSetOnce ==
    \A i \in 1..Len(returnWrites) : returnWrites[i] <= 1

\* C7: a return whose (user_id, book_id) has no record with return_date
\* NULL yields the 'no active borrow record' error (unless the lookup
\* itself raises a storage error), and that response changes no quantity
\* and no record.
C7_ReturnWithoutActiveRecord ==
    [][\A p \in Procs :
          LET none == ~\E i \in 1..Len(records) :
                          /\ records[i].user_id = req[p].user_id
                          /\ records[i].book_id = req[p].book_id
                          /\ records[i].return_date = NULL
          IN
          /\ (pc[p] = "r_sel_record" /\ pc'[p] # "r_sel_record" /\ none
                /\ resp'.kind # "db_error")
                => (resp'.proc = p /\ resp'.kind = "no_active_record")
          /\ (resp'.proc = p /\ resp'.kind = "no_active_record")
                => /\ none
                   /\ resp'.code = 400
                   /\ quantity' = quantity
                   /\ records' = records
                   /\ txQty'[p] = 0 /\ txReturn'[p] = NULL]_vars

C7_Witness ==
    /\ resp.kind = "no_active_record"
    /\ Cardinality(Returned(1)) = 1
    /\ Active(1) = {}

\* C8: for a sequential client, a successful borrow directly followed by a
\* return of the same user and book (not hit by a storage error) is a
\* successful return that puts the quantity back to its value before the
\* borrow; on a single-copy book borrow, return, borrow succeed all three.
QuantityBefore(i) == IF i = 1 THEN initQty ELSE log[i - 1].quantity
SamePair(i, j) ==
    log[i].user_id = log[j].user_id /\ log[i].book_id = log[j].book_id
C8_BorrowReturnRoundTrip ==
    /\ \A i \in 1..(Len(log) - 1) :
          (/\ log[i].op = "borrow" /\ log[i].kind = "borrowed"
           /\ log[i + 1].op = "return" /\ SamePair(i, i + 1)
           /\ log[i + 1].kind # "db_error")
          => /\ log[i + 1].kind = "returned"
             /\ log[i + 1].quantity = QuantityBefore(i)
             /\ log[i].quantity[log[i].book_id]
                  = QuantityBefore(i)[log[i].book_id] - 1
    /\ (/\ Len(log) >= 3
        /\ log[1].op = "borrow" /\ log[2].op = "return" /\ log[3].op = "borrow"
        /\ log[1].user_id \in UserIds /\ log[1].book_id \in BookIds
        /\ SamePair(1, 2) /\ SamePair(2, 3)
        /\ initQty[log[1].book_id] = 1
        /\ \A i \in 1..3 : log[i].kind # "db_error")
       => /\ log[1].kind = "borrowed"
          /\ log[2].kind = "returned"
          /\ log[3].kind = "borrowed"

C8_Witness ==
    /\ Len(log) = 3
    /\ initQty[1] = 1
    /\ log[1].kind = "borrowed" /\ log[2].kind = "returned"
    /\ log[3].kind = "borrowed"
    /\ log[2].quantity[1] = 1

(***************************************************************************)
(* Properties of the circuit breakers.                                     *)
(***************************************************************************)
\* C9: a closed breaker opens in exactly the step in which the
\* fail_max-th failure in a row (no success in between) is recorded, not
\* earlier and in no other step, and that step records opened_at = now.
C9_OpensAtThreshold ==
    [][\A b \in Breakers :
          cb_state[b] = "closed" =>
              /\ consec[b] < fail_max(b)
              /\ (cb_state'[b] = "open") <=>
                    (consec[b] = fail_max(b) - 1 /\ consec'[b] = fail_max(b))
              /\ cb_state'[b] = "open" => opened_at'[b] = now
              /\ cb_state'[b] \in {"closed", "open"}]_vars

C9_Witness ==
    /\ cb_state["authentication"] = "open"
    /\ consec["authentication"] = 3
    /\ opened_at["authentication"] = now
    /\ out.breaker = "authentication" /\ out.executed
    /\ cb_state["database"] = "closed"
    /\ consec["database"] = 2

\* C10: while a breaker is open and less than reset_timeout has passed
\* since it opened, no call on it starts the underlying operation, and
\* every call made on it ends rejected, with the operation not executed
\* and the breaker unchanged.
C10_OpenRejects ==
    [][\A b \in Breakers :
          (cb_state[b] = "open" /\ now - opened_at[b] < reset_timeout(b)) =>
              /\ \A p \in Procs :
                    ~(caller'[p].pos = "in_op" /\ caller'[p].breaker = b)
              /\ ncalls' # ncalls /\ out'.breaker = b
                    => /\ out'.kind = "CircuitBreakerError"
                       /\ ~out'.executed
              /\ cb_state'[b] = "open"
              /\ opened_at'[b] = opened_at[b]
              /\ fail_counter'[b] = fail_counter[b]]_vars

C10_Witness ==
    /\ cb_state["database"] = "open"
    /\ now - opened_at["database"] < reset_timeout("database")
    /\ now > opened_at["database"]
    /\ out.breaker = "database"
    /\ out.kind = "CircuitBreakerError"
    /\ ~out.executed

\* C11: after reset_timeout has elapsed on an open breaker exactly one
\* trial is let through: the breaker becomes half-open only once the timeout
\* has elapsed, at most one caller is inside a call on a breaker at a time,
\* a half-open breaker has exactly one caller running the operation, and
\* until that trial's outcome is recorded no other call on the breaker
\* starts or is answered (the other callers wait for the lock).
Running(b, c) ==
    {p \in Procs : \/ c[p].pos = "in_op" /\ c[p].breaker = b
                   \/ c[p].inner = "running" /\ b = "database"}
C11_ExactlyOneTrial ==
    [][\A b \in Breakers :
          /\ Cardinality(Running(b, caller)) <= 1
          /\ (cb_state[b] = "open" /\ cb_state'[b] = "half-open") =>
                /\ now - opened_at[b] >= reset_timeout(b)
                /\ Cardinality(Running(b, caller')) = 1
          /\ cb_state[b] = "half-open" =>
                /\ Cardinality(Running(b, caller)) = 1
                /\ Running(b, caller') \subseteq Running(b, caller)
                /\ out'.breaker = b =>
                      /\ out'.proc \in Running(b, caller)
                      /\ out'.executed]_vars

C11_Witness ==
    /\ cb_state["authentication"] = "half-open"
    /\ now - opened_at["authentication"] >= reset_timeout("authentication")
    /\ caller[1].pos = "in_op" /\ caller[1].breaker = "authentication"
    /\ caller[2].pos = "idle"
    /\ cb_lock["authentication"] = 1

\* C12: a half-open breaker leaves that state only when its trial call
\* ends; a trial that succeeded leaves the breaker closed with
\* fail_counter = 0, a trial that failed leaves it open with
\* opened_at = now, so that the whole reset_timeout lies ahead again.
C12_TrialOutcome ==
    [][\A b \in Breakers :
          cb_state[b] = "half-open" =>
              LET ended == Running(b, caller') = {} IN
              /\ cb_state'[b] # "half-open" <=> ended
              /\ ended =>
                    /\ out'.breaker = b /\ out'.executed
                    /\ out'.kind = "returned" =>
                          cb_state'[b] = "closed" /\ fail_counter'[b] = 0
                    /\ out'.kind # "returned" =>
                          /\ cb_state'[b] = "open"
                          /\ opened_at'[b] = now
                          /\ now' - opened_at'[b] < reset_timeout(b)]_vars

C12_Witness ==
    /\ cb_state["authentication"] = "open"
    /\ consec["authentication"] = fail_max("authentication") + 1
    /\ opened_at["authentication"] = now
    /\ now >= TickLen + reset_timeout("authentication")
    /\ out.breaker = "authentication" /\ out.executed

\* C13: a call rejected because the breaker is open is not counted as a
\* failure of that breaker: the rejecting step leaves the breaker's
\* fail_counter, state and opened_at unchanged, and so does the step in
\* which a rejection raised by get_db inside a decorated function leaves
\* that function through the decorator's own breaker call.
C13_RejectionNotCounted ==
    [][/\ \A b \in Breakers :
             (out' # out /\ out'.breaker = b /\ ~out'.executed) =>
                 /\ out'.kind = "CircuitBreakerError"
                 /\ fail_counter'[b] = fail_counter[b]
                 /\ cb_state'[b] = cb_state[b]
                 /\ opened_at'[b] = opened_at[b]
       /\ \A p \in Procs :
             (caller[p].inner = "rejected" /\ caller'[p].pos = "idle") =>
                 /\ caller[p].breaker # "database"
                 /\ fail_counter'["database"] = fail_counter["database"]
                 /\ cb_state'["database"] = cb_state["database"]
                 /\ opened_at'["database"] = opened_at["database"]]_vars

\* A rejection by the database breaker inside a function decorated with
\* the redis breaker has been raised through the decorator.
C13_Witness ==
    /\ \E p \in Procs : caller[p].pos = "idle"
    /\ out.breaker = "redis" /\ out.executed /\ out.kind = "op_error"
    /\ fail_counter["redis"] = 1
    /\ cb_state["database"] = "open"
    /\ now - opened_at["database"] < reset_timeout("database")
    /\ fail_counter["database"] = fail_max("database")

\* C14: a guarded call that executed the operation and saw it fail ends
\* with the operation's own error, and CircuitBreakerError ends only calls
\* that did not execute the operation.
C14_OwnErrorWhenExecuted ==
    /\ (out.executed /\ out.kind # "returned") => out.kind = "op_error"
    /\ out.kind = "CircuitBreakerError" => ~out.executed

\* C15: every state transition of every breaker calls the state-change
\* observer exactly once, with the breaker's name, the old state, the new
\* state and the failure count.
C15_TransitionObserved ==
    [][\A b \in Breakers :
          cb_state'[b] # cb_state[b] =>
              notified' = Append(notified,
                                 <<b, cb_state[b], cb_state'[b], fail_counter'[b]>>)]_vars

(***************************************************************************)
(* Properties of the authentication gateway.                               *)
(***************************************************************************)
Protected == gw_req.path \notin {"none", ""} \cup PUBLIC_PATHS
BearerHeader(h) == h.present /\ h.scheme = "Bearer" /\ h.spaces = 1

\* C16: a request for a path outside the allow-list is sent upstream only if
\* its Authorization header is "Bearer " followed by a token that is well
\* formed, signed with the key and not expired; with the header missing or
\* not starting with "Bearer " the answer is 401 and nothing is sent
\* upstream.
C16_ProtectedNeedsValidToken ==
    Protected =>
        LET h == gw_req.auth IN
        /\ forwarded # <<>> =>
              /\ BearerHeader(h)
              /\ h.token.wellformed /\ h.token.sig_ok /\ h.token.exp > now
        /\ (~h.present \/ h.scheme # "Bearer" \/ h.spaces = 0) =>
              /\ gw_resp.status = 401
              /\ forwarded = <<>>

C16_Witness ==
    /\ gw_req.path = "api/v1/books"
    /\ BearerHeader(gw_req.auth) /\ gw_req.auth.token.exp = now + 1
    /\ forwarded = <<[method |-> "POST", path |-> "api/v1/books"]>>
    /\ gw_pc = "streaming"

\* C17: a request for metrics, health, api/v1/register or api/v1/login is
\* sent upstream without a token check, whatever its Authorization header.
C17_PublicForwardedUnchecked ==
    gw_req.path \in {"metrics", "health", "api/v1/register", "api/v1/login"} =>
        /\ forwarded # <<>>
        /\ forwarded[1] = [method |-> gw_req.method, path |-> gw_req.path]
        /\ gw_resp.kind # "auth_error"

C17_Witness ==
    /\ gw_req.path = "api/v1/login"
    /\ BearerHeader(gw_req.auth)
    /\ gw_req.auth.token.sig_ok /\ gw_req.auth.token.exp < now
    /\ gw_resp.kind = "upstream" /\ gw_resp.complete

\* C18: on a protected path a well-formed, correctly signed token whose exp
\* has passed is answered 401 "Token expired"; any other token that does not
\* verify (bad signature, malformed, empty) is answered 401 "Token invalid";
\* in both cases nothing is sent upstream.
C18_ExpiredOrInvalid ==
    (Protected /\ gw_req.auth.present /\ gw_req.auth.scheme = "Bearer"
               /\ gw_req.auth.spaces >= 1) =>
        LET h == gw_req.auth
            empty == h.spaces > 1
            expired == ~empty /\ h.token.wellformed /\ h.token.sig_ok
                              /\ h.token.exp <= now
            invalid == empty \/ ~h.token.wellformed \/ ~h.token.sig_ok
        IN
        /\ expired => /\ gw_resp.status = 401
                      /\ gw_resp.message = "Token expired"
                      /\ forwarded = <<>>
        /\ invalid => /\ gw_resp.status = 401
                      /\ gw_resp.message = "Token invalid"
                      /\ forwarded = <<>>

C18_Witness ==
    /\ gw_req.path = "health/"
    /\ BearerHeader(gw_req.auth)
    /\ gw_req.auth.token.sig_ok /\ gw_req.auth.token.exp = now
    /\ gw_resp.message = "Token expired"
    /\ gw_pc = "done"

\* C19: a request that was sent upstream ends either with the upstream's
\* response relayed completely or, when the upstream could not be reached
\* or timed out at any point, with the gateway's 503; never with an
\* exception outside the handler.
C19_UpstreamFailureIs503 ==
    (gw_pc = "done" /\ forwarded # <<>>) =>
        /\ ~gw_resp.unhandled
        /\ \/ gw_resp.kind = "upstream" /\ gw_resp.complete
           \/ gw_resp.kind = "gateway_error" /\ gw_resp.status = 503

\* C20: once the upstream has returned a response, the response given to
\* the client carries that response's status code, and is not the gateway's
\* own 503.
C20_UpstreamStatusVerbatim ==
    (gw_resp.kind # "none" /\ up_resp.statuses # <<>>) =>
        /\ gw_resp.kind = "upstream"
        /\ \A i \in 1..Len(up_resp.statuses) : gw_resp.status = up_resp.statuses[i]

(***************************************************************************)
(* Connections, rejected requests, relay, borrow order.                    *)
(***************************************************************************)
\* Connections of the pool held by requests of this application.
Outstanding == pool_busy - pool_other

C22_RejectedIs503 ==
    resp.kind = "breaker_open" =>
        /\ resp.code = 503
        /\ resp.code # StatusCode("db_error")
        /\ TxEmpty(resp.proc)

\* The chunks c, taken in order, are the bytes 1..n of the body, each once.
Contiguous(c, n) ==
    /\ \A i \in 1..Len(c) : c[i].from = (IF i = 1 THEN 1 ELSE c[i - 1].to + 1)
    /\ \A i \in 1..Len(c) : c[i].from <= c[i].to
    /\ (IF c = <<>> THEN 0 ELSE c[Len(c)].to) = n

\* C23: the upstream body is relayed incrementally: the gateway never holds
\* more than one chunk of at most 1024 bytes, the chunks written and held
\* are, in order, exactly the bytes read so far, a body of more than one
\* chunk has its first chunk written before its last chunk is read, and a
\* completed response carries the whole body.
C23_RelayedIncrementally ==
    /\ Len(rl_held) <= 1
    /\ \A i \in 1..Len(rl_held) : rl_held[i].to - rl_held[i].from + 1 <= ChunkSize
    /\ Contiguous(rl_sent \o rl_held, rl_up.read)
    /\ (rl_up.size > ChunkSize /\ rl_up.read = rl_up.size) => rl_sent # <<>>
    /\ rl_pc = "done" => Contiguous(rl_sent, rl_up.size)

\* The last chunk of a body of more than one chunk is held, not yet written,
\* and the chunks before it have been written.
C23_Witness ==
    /\ rl_pc = "streaming"
    /\ rl_up.size > ChunkSize
    /\ rl_up.read = rl_up.size
    /\ Len(rl_held) = 1
    /\ Len(rl_sent) >= 1

\* C24: the request handed to requests.request has the method of the
\* client's request, its path appended to the base URL, every header except
\* Host, every query parameter with every value of a repeated key, and the
\* same body.
C24_ForwardedFaithfully ==
    rl_pc = "forwarding" =>
        /\ rl_fwd.method = rl_req.method
        /\ rl_fwd.url = <<"FORWARD_URL", "/", rl_req.path>>
        /\ rl_fwd.headers = {kv \in rl_req.headers : kv[1] # "Host"}
        /\ rl_fwd.params = rl_req.query
        /\ rl_fwd.data = rl_req.body

\* Spellings of the four header names the gateway drops.
DroppedNames ==
    {"Content-Length", "content-length", "Transfer-Encoding",
     "Content-Encoding", "Connection", "CONNECTION"}

\* C25: the gateway's response has no content-length, transfer-encoding,
\* content-encoding or connection header of the upstream, in any spelling,
\* and has every other upstream header line, unchanged and in order.
C25_HopHeadersDropped ==
    rl_pc \in {"streaming", "done"} =>
        /\ \A i \in 1..Len(rl_resp.headers) : rl_resp.headers[i][1] \notin DroppedNames
        /\ rl_resp.headers =
              SelectSeq(rl_up.headers, LAMBDA kv : kv[1] \notin DroppedNames)
        /\ rl_resp.status = rl_up.status

\* The upstream sent Content-Length in capitals and a Set-Cookie line: the
\* response has the second and not the first.
C25_Witness ==
    /\ rl_pc = "streaming"
    /\ rl_up.headers = <<<<"Content-Length", "n">>, <<"Set-Cookie", "a=1">>>>
    /\ rl_resp.headers = <<<<"Set-Cookie", "a=1">>>>

\* C26: for each (user_id, book_id) pair there is at most one BorrowRecord
\* with return_date = null, in every reachable state.
C26_OneActiveRecordPerPair ==
    \A u \in UserIds, b \in BookIds :
        Cardinality({i \in 1..Len(records) : /\ records[i].user_id = u
                                             /\ records[i].book_id = b
                                             /\ records[i].return_date = NULL}) <= 1

\* C27: no request waits for a connection for ever: a request that asks for
\* a connection while all PoolMax connections are held eventually leaves
\* get_db, with a connection or with an error, even if no holder releases.
C27_AcquireEnds ==
    \A p \in Procs :
        (caller[p].pos = "in_op" /\ pool_busy = PoolMax) ~> (caller[p].pos = "idle")

\* The breaker a name stands for when every name has a breaker of its own.
OwnBreaker(name) ==
    CASE name = "db" -> "database"
      [] name = "auth" -> "authentication"
      [] OTHER -> name

\* C28: a guarded call made under one breaker name leaves the state and the
\* failure count of the breakers of all other names as they are, also when
\* the name is none of 'db', 'redis', 'auth', 'external_api'.
C28_NamesIndependent ==
    [][\A p \in Procs, name \in BreakerNames :
          wrapper(p, name) =>
              \A b \in Breakers \ {OwnBreaker(name)} :
                  /\ cb_state'[b] = cb_state[b]
                  /\ fail_counter'[b] = fail_counter[b]]_vars

\* C29: while a breaker is not closed its operation runs at most once per
\* reset_timeout window: the window starts when the execution that opened
\* the breaker ends (opened_at is that moment), and an execution that began
\* while the breaker was not closed began reset_timeout or more after it.
C29_OncePerWindow ==
    /\ \A p \in Procs :
          (caller[p].pos = "in_op" /\ caller[p].state # "closed") =>
              /\ opened_at[caller[p].breaker] # NULL
              /\ now >= opened_at[caller[p].breaker]
                          + reset_timeout(caller[p].breaker)
    /\ (out.executed /\ cb_state[out.breaker] # "closed") =>
          /\ cb_state[out.breaker] = "open"
          /\ opened_at[out.breaker] = now

\* The trial of a breaker that opened after fail_max failures is running.
C29_Witness ==
    \E p \in Procs :
        /\ caller[p].pos = "in_op"
        /\ caller[p].state = "half-open"
        /\ cb_state[caller[p].breaker] = "half-open"
        /\ consec[caller[p].breaker] >= fail_max(caller[p].breaker)
        /\ now >= opened_at[caller[p].breaker] + reset_timeout(caller[p].breaker)

\* C30: borrow checks its preconditions in order: a request of an unknown
\* user goes no further than the user check and is answered NotFound for
\* the user, also when the book is unknown or out of stock; a request of a
\* known user for an unknown book goes no further than the book check and
\* is answered NotFound for the book; neither reaches the conditional
\* decrement, holds an uncommitted write, or changes the quantity.
C30_PreconditionOrder ==
    /\ \A p \in Procs :
          req[p].op = "borrow" =>
              /\ pc[p] \in {"b_sel_book", "b_update", "b_insert", "b_commit"}
                    => req[p].user_id \in UserIds
              /\ pc[p] \in {"b_update", "b_insert", "b_commit"}
                    => req[p].book_id \in BookIds
              /\ ~TxEmpty(p)
                    => req[p].user_id \in UserIds /\ req[p].book_id \in BookIds
    /\ \A i \in 1..Len(log) :
          LET before == IF i = 1 THEN initQty ELSE log[i - 1].quantity IN
          log[i].op = "borrow" =>
              /\ log[i].user_id \notin UserIds =>
                    /\ log[i].kind \in {"user_not_found", "db_error"}
                    /\ log[i].quantity = before
              /\ (log[i].user_id \in UserIds /\ log[i].book_id \notin BookIds) =>
                    /\ log[i].kind \in {"book_not_found", "db_error"}
                    /\ log[i].quantity = before

\* A borrow of an unknown user for an unknown book was answered "user not
\* found", and one of a known user for an unknown book "book not found".
C30_Witness ==
    /\ \E i \in 1..Len(log) :
          /\ log[i].op = "borrow"
          /\ log[i].user_id \notin UserIds
          /\ log[i].book_id \notin BookIds
          /\ log[i].kind = "user_not_found"
    /\ \E i \in 1..Len(log) :
          /\ log[i].op = "borrow"
          /\ log[i].user_id \in UserIds
          /\ log[i].book_id \notin BookIds
          /\ log[i].kind = "book_not_found"

(***************************************************************************)
(* Return, breaker bookkeeping, book maintenance.                          *)
(***************************************************************************)
\* Sum of f[i] over the set S of indices.
RECURSIVE SumOver(_, _)
SumOver(f, S) ==
    IF S = {} THEN 0
    ELSE LET i == CHOOSE x \in S : TRUE IN f[i] + SumOver(f, S \ {i})

RecordsOf(b) == {i \in 1..Len(records) : records[i].book_id = b}

\* C31: return is all-or-nothing: in every committed state each book's
\* quantity is its first quantity, less one per borrow record, plus one per
\* committed write of a return_date, and a record is returned exactly when
\* its return_date was written: no increment is committed without the
\* return_date or the return_date without the increment, and a handler that
\* has answered (a storage error included) left nothing pending.
C31_ReturnAllOrNothing ==
    /\ \A b \in BookIds :
          quantity[b] = initQty[b] - Cardinality(RecordsOf(b))
                          + SumOver(returnWrites, RecordsOf(b))
    /\ \A i \in 1..Len(records) :
          (records[i].return_date # NULL) <=> (returnWrites[i] >= 1)
    /\ \A p \in Procs : pc[p] = "idle" => TxEmpty(p)

\* A return met a storage error after its increment (at the record update
\* or the commit): the quantity is the one before and the record is active.
C31_Witness ==
    /\ resp.kind = "db_error"
    /\ resp.at \in {"r_upd_record", "r_commit"}
    /\ Len(records) = 1
    /\ records[1].return_date = NULL
    /\ quantity[1] = initQty[1] - 1
    /\ \A p \in Procs : TxEmpty(p)

\* C32: a successful call resets the failure count to 0, so a closed breaker
\* counts only the failures since the last success: while it is closed its
\* count is the length of the current run of failures and is below
\* fail_max, however many failures there were before.
C32_SuccessResetsCount ==
    /\ \A b \in Breakers :
          cb_state[b] = "closed" =>
              /\ fail_counter[b] = consec[b]
              /\ fail_counter[b] < fail_max(b)
    /\ out.kind = "returned" =>
          /\ fail_counter[out.breaker] = 0
          /\ cb_state[out.breaker] = "closed"

\* The last of MaxCalls calls succeeded on a breaker that never opened.
C32_Witness ==
    /\ out.kind = "returned"
    /\ out.breaker = "authentication"
    /\ ncalls = MaxCalls
    /\ \A b \in Breakers : opened_at[b] = NULL /\ fail_counter[b] = 0

\* Threads inside a guarded call on breaker b.
Inside(b) ==
    {p \in Procs : caller[p].pos \in {"in_op", "recording"} /\ caller[p].breaker = b}

\* C33: the recording of outcomes on one breaker is serialized: at most one
\* thread is inside a call on a breaker, and no failure increment is lost:
\* with failing calls only, the count is the number of failures recorded,
\* a closed breaker has fewer than fail_max of them, and a breaker with
\* fail_max or more is not closed.
C33_NoLostIncrement ==
    \A b \in Breakers :
        /\ Cardinality(Inside(b)) <= 1
        /\ fail_counter[b] = consec[b]
        /\ cb_state[b] = "closed" <=> consec[b] < fail_max(b)

\* Thread 1 has read the counter of the database breaker after four
\* failures and is about to write the fifth, thread 2 is inside a call on
\* another breaker.
C33_Witness ==
    /\ caller[1].pos = "recording"
    /\ caller[1].breaker = "database"
    /\ seen[1] = 4
    /\ caller[2].pos = "in_op"
    /\ caller[2].breaker = "redis"

\* C34: the state and the failure count of the breakers change only in the
\* steps of a guarded call: a reading of the status changes nothing and
\* reports the current values, and neither the statements of borrow and
\* return (successful or failing) nor the release of the connection at the
\* end of a request change them.
C34_OnlyGuardedCallsChangeBreakers ==
    [][LET same == cb_state' = cb_state /\ fail_counter' = fail_counter IN
       /\ (caller' = caller /\ ncalls' = ncalls) => same
       /\ (out'.kind = "status" /\ out' # out) =>
             /\ same
             /\ \A b \in Breakers :
                   /\ out'.status[b].state = cb_state[b]
                   /\ out'.status[b].fail_counter = fail_counter[b]
       /\ (\E p \in Procs : pc[p] \in TryBlock /\ pc'[p] # pc[p]) => same
       /\ (\E p \in Procs : g_db[p] /\ ~g_db'[p]) => same]_vars

\* A storage error inside a request was answered and the connection given
\* back while the database breaker, closed, counts the two failures of
\* earlier guarded calls.
C34_Witness ==
    /\ resp.kind = "db_error"
    /\ fail_counter["database"] = 2
    /\ cb_state["database"] = "closed"
    /\ \A p \in Procs : ~g_db[p]

\* C36: conservation of copies: in every committed state each book's
\* quantity plus the number of its records with return_date = null is what
\* it was at the start (the first quantity; there is no record then).
C36_CopiesConserved ==
    \A b \in BookIds : quantity[b] + Cardinality(Active(b)) = initQty[b]

\* C35: creating or updating a book never stores a negative quantity: the
\* quantity of every stored book, created ones included, is >= 0 in every
\* state, and an add_book or update_book call whose quantity is negative
\* ends in an error response (500) and leaves the stored rows as they were.
NegativeRequested(p) ==
    book_req[p].data = "quantity" /\ book_req[p].quantity < 0
C37_UpdateKeepsCommittedQuantity ==
    [][\A p \in Procs :
          LET b == req[p].book_id IN
          (/\ pc[p] = "u_update" /\ pc'[p] = "idle"
           /\ book_req[p].data = "title"
           /\ quantity[b] + Cardinality(Active(b)) = initQty[b])
              => quantity' = quantity]_vars

\* C38: every breaker is well formed in every reachable state: its state is
\* closed, open or half-open; it starts closed with fail_counter = 0; while
\* it is closed 0 <= fail_counter < fail_max; and a step that changes the
\* state takes closed to open, open to half-open, half-open to closed or
\* half-open to open, nothing else.
Transitions ==
    {<<"closed", "open">>, <<"open", "half-open">>, <<"half-open", "closed">>,
     <<"half-open", "open">>}
C38_BreakerWellFormed ==
    /\ \A b \in Breakers : cb_state[b] = "closed" /\ fail_counter[b] = 0
    /\ [](\A b \in Breakers :
            /\ cb_state[b] \in {"closed", "open", "half-open"}
            /\ cb_state[b] = "closed" =>
                  (0 <= fail_counter[b] /\ fail_counter[b] < fail_max(b)))
    /\ [][\A b \in Breakers :
            cb_state'[b] # cb_state[b] =>
                <<cb_state[b], cb_state'[b]>> \in Transitions]_vars

\* The authentication breaker has opened, run a trial that closed it again,
\* and counted two failures since.
C38_Witness ==
    /\ cb_state["authentication"] = "closed"
    /\ opened_at["authentication"] # NULL
    /\ fail_counter["authentication"] = fail_max("authentication") - 1

====
